---- MODULE Spec2Model ----
(***************************************************************************)
(* A model of the Kamisato bot: the custom-reminder polling loop of the    *)
(* Timers cog (kamisato/ext/timers.py), the daily/weekly reset reminders   *)
(* and their commands, the /data import handler, startup and shutdown of   *)
(* the bot (kamisato/__init__.py), the gate of the developer console       *)
(* (kamisato/ext/dev.py), the Paginator and its view (kamisato/util.py)    *)
(* the date computations of /server today, /reminder daily and the region  *)
(* timers, the helpers trim and MergeStream of the developer console, and  *)
(* Context.acquire.                                                        *)
(*                                                                         *)
(* Every coroutine is modelled at the granularity of its await points: a   *)
(* task's pc names the await it is suspended at, and one action runs the   *)
(* code from that await to the next one.                                   *)
(*                                                                         *)
(* The parts share no state: the polling loop reads and writes             *)
(* custom_reminder only, the reset reminders user_config, daily_reminder   *)
(* and weekly_reminder, and the others nothing of the database. Each has   *)
(* its own specification, which leaves the variables of the others as      *)
(* initialised. They meet in the database pool only: SpecShutdown runs     *)
(* Kamisato.close together with the polling loop and the region timers.    *)
(***************************************************************************)
EXTENDS Integers, Sequences, FiniteSets, TLC

\* ------------------------------------------------------------------ bounds
MaxTime == 3          \* the clock runs over the days 0..MaxTime
MaxTasks == 3         \* polling tasks ever created by one cog
MaxReminders == 2     \* rows ever inserted into custom_reminder (uid SERIAL)
MaxErrors == 2        \* connection-loss errors raised in the polling loop
NumUsers == 2         \* users issuing commands
NumChannels == 2      \* channels commands are issued in
MaxCmds == 4          \* slash commands issued in one behaviour
MaxFires == 2         \* firings of the region timers in one behaviour
MaxPending == 1       \* /reminder commands suspended before their DELETE
MaxLen == 3           \* bytes of an imported attachment
NumExts == 2          \* extensions listed in config.toml
MaxCloses == 2        \* calls of Kamisato.close in one behaviour
MaxSize == 4          \* largest max_size of a Paginator
MaxValue == 2         \* characters of a value passed to Paginator.append
MaxDay == 65          \* days the wall clock ranges over
MaxCalls == 2         \* calls made on one Paginator
MaxText == 3          \* characters of the short texts passed to trim
MaxLines == 2         \* lines a process writes to each of its streams
MaxDepth == 3         \* acquire blocks open at once on one Context
MaxConns == 3         \* connections the pool hands out to one Context
MaxSubs == 3          \* users subscribed when the resets are run alone
MaxReleases == 6      \* calls of pool.release made for one Context

\* the interval of the poll's WHERE clause, in days
HorizonDays == 40

VARIABLES
    now,              \* the current time (days)
    ready,            \* bot.wait_until_ready() would return
    closed,           \* bot.is_closed()
    unloaded,         \* Timers.cog_unload has run
    custom_reminder,  \* the custom_reminder table: a set of rows
    nextuid,          \* the table's SERIAL sequence
    active,           \* Timers._custom_reminder_active (asyncio.Event)
    latest,           \* Timers._latest_reminder
    task,             \* the polling tasks ever created: id -> [pc, cancel, row]
    recorded,         \* Timers._custom_reminder_task (0: None)
    sent,             \* uids of the reminders whose message was sent
    connLost,         \* number of connection-loss errors raised in the loop
    user_config,      \* the user_config table: rows [userid, server]
    reminder,         \* the daily_reminder and weekly_reminder tables
    channels,         \* the channels bot.get_channel finds
    cb,               \* the reset callback in flight
    pending,          \* /reminder commands that got UniqueViolationError
    ncmd,             \* slash commands issued so far
    nfire,            \* timer firings so far
    ev,               \* what the last step sent or deleted
    attachment,       \* the bytes of the attachment of /data import
    ipc,              \* where Data._import stands
    ireply,           \* the follow-up Data._import sent
    isaved,           \* save_data was called
    iraised,          \* the exception that left Data._import
    dbwrites,         \* statements /data import executed on the database
    ssh_tunnel,       \* Kamisato._ssh_tunnel: a tunnel is configured
    ssh_tunnel_proc,  \* Kamisato._ssh_tunnel_proc: "MISSING" or "proc"
    proc,             \* the tunnel process: none, running, signalled, exited
    db,               \* Kamisato.db: "MISSING" or "pool"
    pool,             \* the asyncpg pool: none, open, closing, closed,
                      \* terminated
    schema,           \* schema.sql has been executed
    extensions,       \* bot.extensions: the extensions loaded
    conn,             \* the connection to the chat platform: open, closed
    spc,              \* where Kamisato.setup_hook stands
    cpc,              \* where each call of Kamisato.close stands
    dreq,             \* the /dev interaction being dispatched: [user, cmd]
    dpc,              \* where its dispatch stands
    dran,             \* the /dev handlers that have run: <<user, cmd>>
    max_size,         \* Paginator.max_size
    prefix,           \* Paginator.prefix (the empty string for None)
    suffix,           \* Paginator.suffix (the empty string for None)
    page_list,        \* Paginator._pages
    current_page,     \* Paginator._current_page
    appended,         \* the values of the successful appends, concatenated
    ncall,            \* calls made on the Paginator so far
    nnext,            \* of which direct calls of next_page
    praised,          \* the last call raised ValueError
    view,             \* a ReactivePaginator exists over the Paginator
    page_index,       \* ReactivePaginator._page_index
    disabled,         \* the disabled attribute of each button
    wrapped,          \* a wrap-around branch of _rotate was taken
    clock,            \* the wall clock: minutes of UTC since the epoch
    kres,             \* what the last date computation gave
    tres,             \* the last call of trim: its arguments and result
    stream,           \* MergeStream: the lines in each pipe, not yet read
    written,          \* the lines the process has written to each pipe
    returncode,       \* the process has exited
    queue,            \* MergeStream.__queue
    reader,           \* the state of the two __stream_task tasks
    stopper,          \* the state of the __stop_task task
    yielded,          \* the lines __anext__ has returned, in order
    stopped,          \* __anext__ has raised StopAsyncIteration
    connection,       \* Context.__connection (0: None)
    blocks,           \* the acquire blocks that are open, outermost first
    taken,            \* connections pool.acquire has handed out so far
    released,         \* how often pool.release took each connection back
    release_calls,    \* the arguments of the calls of pool.release
    exc               \* the exception propagating through the blocks

loopVars == <<now, ready, closed, unloaded, custom_reminder, nextuid, active,
              latest, task, recorded, sent, connLost>>

remVars == <<user_config, reminder, channels, cb, pending, ncmd, nfire, ev>>

importVars == <<attachment, ipc, ireply, isaved, iraised, dbwrites>>

botVars == <<ssh_tunnel, ssh_tunnel_proc, proc, db, pool, schema, extensions,
             conn, spc, cpc>>

devVars == <<dreq, dpc, dran>>

pagVars == <<max_size, prefix, suffix, page_list, current_page, appended,
             ncall, nnext, praised, view, page_index, disabled, wrapped>>

clockVars == <<clock, kres>>

trimVars == <<tres>>

mergeVars == <<stream, written, returncode, queue, reader, stopper, yielded,
               stopped>>

ctxVars == <<connection, blocks, taken, released, release_calls, exc>>

\* the parts of the developer console's helpers and of Context
utilVars == <<trimVars, mergeVars, ctxVars>>

vars == <<loopVars, remVars, importVars, botVars, devVars, pagVars,
          clockVars, utilVars>>

\* what the actions of each part leave alone
notLoopVars == <<remVars, importVars, botVars, devVars, pagVars,
               clockVars, utilVars>>
notRemVars == <<loopVars, importVars, botVars, devVars, pagVars,
               clockVars, utilVars>>
notImportVars == <<loopVars, remVars, botVars, devVars, pagVars,
               clockVars, utilVars>>
notBotVars == <<loopVars, remVars, importVars, devVars, pagVars,
               clockVars, utilVars>>
notDevVars == <<loopVars, remVars, importVars, botVars, pagVars,
               clockVars, utilVars>>
notPagVars == <<loopVars, remVars, importVars, botVars, devVars,
               clockVars, utilVars>>
notClockVars == <<loopVars, remVars, importVars, botVars, devVars, pagVars,
                  utilVars>>
notUtilVars == <<loopVars, remVars, importVars, botVars, devVars, pagVars,
                 clockVars>>
notTrimVars == <<notUtilVars, mergeVars, ctxVars>>
notMergeVars == <<notUtilVars, trimVars, ctxVars>>
notCtxVars == <<notUtilVars, trimVars, mergeVars>>

\* ------------------------------------------------------- custom reminders
None == 0
NoRow == [uid |-> 0, target |-> 0]
NoTask == [pc |-> "none", cancel |-> FALSE, row |-> NoRow]

TaskIds == 1..MaxTasks
\* a reminder time within the clock's range, or one beyond the poll's horizon
Targets == (0..MaxTime) \cup {HorizonDays + MaxTime}
Rows == [uid : 1..MaxReminders, target : Targets]

\* a task is done when its coroutine has returned, raised or been cancelled
Done(t) == task[t].pc \in {"finished", "failed", "cancelled"}
Created(t) == task[t].pc # "none"
\* neither done nor asked to cancel
Alive(t) == Created(t) /\ ~Done(t) /\ ~task[t].cancel
NumTasks == Cardinality({t \in TaskIds : Created(t)})

\* Task.cancel(): a done task ignores it, any other is asked to cancel
CancelTask(tk, t) ==
    IF tk[t].pc \in {"finished", "failed", "cancelled"} THEN tk
    ELSE [tk EXCEPT ![t].cancel = TRUE]

\* loop.create_task(self._reminder_loop()): the new task waits at line 108
CreateTask(tk) ==
    LET n == Cardinality({t \in TaskIds : tk[t].pc # "none"}) + 1
    IN  [tk EXCEPT ![n] = [pc |-> "wait_ready", cancel |-> FALSE, row |-> NoRow]]

NewTaskId(tk) == Cardinality({t \in TaskIds : tk[t].pc # "none"}) + 1

\* a restart that creates the new task and leaves the previous one alone
EnsureNoCancel(tk, rec) ==
    [task |-> CreateTask(tk), recorded |-> NewTaskId(tk)]

\* Timers._ensure_reminder_loop
EnsureReminderLoop(tk, rec) ==
    LET cancelled == IF rec # None THEN CancelTask(tk, rec) ELSE tk
    IN  [task |-> CreateTask(cancelled), recorded |-> NewTaskId(tk)]

\* WHERE expires < (CURRENT_DATE + '40 days'::interval); the table's expiry
\* column is the reminder's target time, and the clock counts whole days
Eligible(r) == r.target < now + HorizonDays

\* ... ORDER BY expires LIMIT 1: the rows the poll may return
PollResult ==
    {r \in custom_reminder :
        /\ Eligible(r)
        /\ \A r2 \in custom_reminder : Eligible(r2) => r.target <= r2.target}

InitLoop ==
    /\ now = 0
    /\ ready = FALSE
    /\ closed = FALSE
    /\ unloaded = FALSE
    /\ \E rows \in {{}} \cup {{[uid |-> 1, target |-> tg]} : tg \in Targets} :
          /\ custom_reminder = rows
          /\ nextuid = Cardinality(rows) + 1
    /\ active = FALSE
    /\ latest = None
    \* Timers.__init__ ends with _ensure_reminder_loop()
    /\ task = EnsureReminderLoop([t \in TaskIds |-> NoTask], None).task
    /\ recorded = EnsureReminderLoop([t \in TaskIds |-> NoTask], None).recorded
    /\ sent = {}
    /\ connLost = 0

\* --- the environment of the loop
Tick ==
    /\ now < MaxTime
    /\ now' = now + 1
    /\ UNCHANGED <<ready, closed, unloaded, custom_reminder, nextuid, active,
                   latest, task, recorded, sent, connLost,
                   notLoopVars>>

BotReady ==
    /\ ~ready /\ ~closed
    /\ ready' = TRUE
    /\ UNCHANGED <<now, closed, unloaded, custom_reminder, nextuid, active,
                   latest, task, recorded, sent, connLost,
                   notLoopVars>>

BotClose ==
    /\ ~closed
    /\ closed' = TRUE
    /\ UNCHANGED <<now, ready, unloaded, custom_reminder, nextuid, active,
                   latest, task, recorded, sent, connLost,
                   notLoopVars>>

\* /dev sql with an INSERT INTO custom_reminder: the only way a row is stored
\* (/reminder custom and /reminder resin store nothing)
SqlInsertReminder(tg) ==
    /\ nextuid <= MaxReminders
    /\ custom_reminder' = custom_reminder \cup {[uid |-> nextuid, target |-> tg]}
    /\ nextuid' = nextuid + 1
    /\ UNCHANGED <<now, ready, closed, unloaded, active, latest, task,
                   recorded, sent, connLost,
                   notLoopVars>>

\* Timers.cog_unload
CogUnload ==
    /\ ~unloaded
    /\ unloaded' = TRUE
    /\ IF recorded # None
         THEN /\ task' = CancelTask(task, recorded)
              /\ recorded' = None
         ELSE UNCHANGED <<task, recorded>>
    /\ UNCHANGED <<now, ready, closed, custom_reminder, nextuid, active,
                   latest, sent, connLost,
                   notLoopVars>>

\* --- Timers._reminder_loop, one action per await
Runs(t, pc) == task[t].pc = pc /\ ~task[t].cancel

\* line 108, then the is_set() test of line 110
WaitReady(t) ==
    /\ Runs(t, "wait_ready") /\ ready
    /\ task' = [task EXCEPT ![t].pc = IF active THEN "top" ELSE "check"]
    /\ UNCHANGED <<now, ready, closed, unloaded, custom_reminder, nextuid,
                   active, latest, recorded, sent, connLost,
                   notLoopVars>>

\* line 110-111: SELECT 1 FROM custom_reminder LIMIT 1
CheckTable(t) ==
    /\ Runs(t, "check")
    /\ active' = (active \/ custom_reminder # {})
    /\ task' = [task EXCEPT ![t].pc = "top"]
    /\ UNCHANGED <<now, ready, closed, unloaded, custom_reminder, nextuid,
                   latest, recorded, sent, connLost,
                   notLoopVars>>

\* line 110 raising a connection-loss error: outside the try, the task dies
CheckTableFails(t) ==
    /\ Runs(t, "check")
    /\ connLost < MaxErrors
    /\ connLost' = connLost + 1
    /\ task' = [task EXCEPT ![t].pc = "failed"]
    /\ UNCHANGED <<now, ready, closed, unloaded, custom_reminder, nextuid,
                   active, latest, recorded, sent,
                   notLoopVars>>

\* line 114-115: the while test, then Event.wait(). The event is set at line
\* 111 only, which no task runs while another is blocked in wait(): a task that
\* reaches "wait" leaves it by cancellation only
LoopTop(t) ==
    /\ Runs(t, "top")
    /\ task' = [task EXCEPT ![t].pc =
                   IF closed THEN "finished"
                   ELSE IF active THEN "poll" ELSE "wait"]
    /\ UNCHANGED <<now, ready, closed, unloaded, custom_reminder, nextuid,
                   active, latest, recorded, sent, connLost,
                   notLoopVars>>

\* line 123-129
Poll(t) ==
    /\ Runs(t, "poll")
    /\ IF PollResult = {}
         THEN /\ active' = FALSE
              /\ task' = [task EXCEPT ![t].pc = "top"]
              /\ UNCHANGED latest
         ELSE \E r \in PollResult :
              /\ task' = [task EXCEPT ![t].pc = "sleep", ![t].row = r]
              /\ latest' = r.target
              /\ UNCHANGED active
    /\ UNCHANGED <<now, ready, closed, unloaded, custom_reminder, nextuid,
                   recorded, sent, connLost,
                   notLoopVars>>

\* line 130: utils.sleep_until(target)
Sleep(t) ==
    /\ Runs(t, "sleep") /\ now >= task[t].row.target
    /\ task' = [task EXCEPT ![t].pc = "delete"]
    /\ UNCHANGED <<now, ready, closed, unloaded, custom_reminder, nextuid,
                   active, latest, recorded, sent, connLost,
                   notLoopVars>>

\* a loop that goes on to the channel without deleting the row
DeleteKeepsRow(t) ==
    /\ Runs(t, "delete")
    /\ task' = [task EXCEPT ![t].pc = "send"]
    /\ UNCHANGED <<now, ready, closed, unloaded, custom_reminder, nextuid,
                   active, latest, recorded, sent, connLost,
                   notLoopVars>>

\* line 132-133: DELETE FROM custom_reminder WHERE uid=$1
DeleteRow(t) ==
    /\ Runs(t, "delete")
    /\ custom_reminder' = {r \in custom_reminder : r.uid # task[t].row.uid}
    /\ task' = [task EXCEPT ![t].pc = "send"]
    /\ UNCHANGED <<now, ready, closed, unloaded, nextuid, active, latest,
                   recorded, sent, connLost,
                   notLoopVars>>

\* line 135-145: the channel is resolved and the message sent, or either
\* fails with an HTTPException and the loop continues
Send(t) ==
    /\ Runs(t, "send")
    /\ \E ok \in BOOLEAN :
          sent' = IF ok THEN sent \cup {task[t].row.uid} ELSE sent
    /\ task' = [task EXCEPT ![t].pc = "top", ![t].row = NoRow]
    /\ UNCHANGED <<now, ready, closed, unloaded, custom_reminder, nextuid,
                   active, latest, recorded, connLost,
                   notLoopVars>>

\* line 148-149: an await inside the try raises OSError, ConnectionClosed or
\* PostgresConnectionError; the handler restarts the loop and the coroutine
\* returns
LoopFails(t) ==
    /\ \/ Runs(t, "poll")
       \/ Runs(t, "delete")
       \/ Runs(t, "send")
    /\ connLost < MaxErrors
    /\ NumTasks < MaxTasks
    /\ connLost' = connLost + 1
    /\ LET e == EnsureReminderLoop(task, recorded)
       IN  /\ task' = [e.task EXCEPT ![t].pc = "exit", ![t].row = NoRow]
           /\ recorded' = e.recorded
    /\ UNCHANGED <<now, ready, closed, unloaded, custom_reminder, nextuid,
                   active, latest, sent,
                   notLoopVars>>

\* the coroutine returns after the handler: Task.__step ends the task as
\* cancelled when a cancellation was requested, finished otherwise
TaskExit(t) ==
    /\ task[t].pc = "exit"
    /\ task' = [task EXCEPT ![t].pc =
                   IF task[t].cancel THEN "cancelled" ELSE "finished"]
    /\ UNCHANGED <<now, ready, closed, unloaded, custom_reminder, nextuid,
                   active, latest, recorded, sent, connLost,
                   notLoopVars>>

\* line 146-147: a task asked to cancel gets CancelledError at its await
TaskCancelled(t) ==
    /\ task[t].cancel
    /\ task[t].pc \in {"wait_ready", "check", "top", "wait", "poll", "sleep",
                       "delete", "send"}
    /\ task' = [task EXCEPT ![t].pc = "cancelled", ![t].row = NoRow]
    /\ UNCHANGED <<now, ready, closed, unloaded, custom_reminder, nextuid,
                   active, latest, recorded, sent, connLost,
                   notLoopVars>>

\* the steps a scheduled task takes without an error being raised
TaskStep(t) ==
    \/ WaitReady(t)
    \/ CheckTable(t)
    \/ LoopTop(t)
    \/ Poll(t)
    \/ Sleep(t)
    \/ DeleteRow(t)
    \/ Send(t)
    \/ TaskExit(t)
    \/ TaskCancelled(t)

LoopStep ==
    \/ Tick
    \/ BotReady
    \/ BotClose
    \/ CogUnload
    \/ \E tg \in Targets : SqlInsertReminder(tg)
    \/ \E t \in TaskIds : TaskStep(t)
    \/ \E t \in TaskIds : CheckTableFails(t)
    \/ \E t \in TaskIds : LoopFails(t)


\* ------------------------------------------------ daily/weekly reminders
Users == 1..NumUsers
Channels == 1..NumChannels
\* the regions of /server update and of the three timers
Servers == {"america", "asia", "europe"}
Kinds == {"daily", "weekly"}

HasConfig(u) == \E c \in user_config : c.userid = u
HasRow(k, u) == \E r \in reminder[k] : r.userid = u

\* what a step reports: a follow-up to an interaction, a message to a
\* channel, or the rows a DELETE removed
NoEv == [type |-> "none", cmd |-> "", user |-> 0, repeat |-> FALSE,
         channel |-> 0, reply |-> "", users |-> {}, removed |-> {}]
Followup(cmd, u, rep, c, reply) ==
    [NoEv EXCEPT !.type = "interaction", !.cmd = cmd, !.user = u,
                 !.repeat = rep, !.channel = c, !.reply = reply]
Message(kind, c, users) ==
    [NoEv EXCEPT !.type = "message", !.cmd = kind, !.channel = c,
                 !.users = users]
Deleted(type, kind, c, rows) ==
    [NoEv EXCEPT !.type = type, !.cmd = kind, !.channel = c, !.removed = rows]

\* fetched, posted and lost record the run: the rows its SELECT returned, the
\* channels it sent a message to, in order, and those it did not find
Idle == [pc |-> "idle", server |-> "", kind |-> "", rows |-> <<>>,
         mentioned |-> {}, fetched |-> <<>>, posted |-> <<>>, lost |-> {}]

\* the orders in which a SELECT without ORDER BY may return a set of rows
Perms(S) ==
    {f \in [1..Cardinality(S) -> S] : \A i, j \in DOMAIN f : f[i] = f[j] => i = j}

\* a purge that forgets the join on the server
DeleteAnyServer(tbl, server) ==
    {r \in tbl : r.repeat}

\* QUERY_DELETE_REMINDER: the table after the DELETE
QUERY_DELETE_REMINDER(tbl, server) ==
    {r \in tbl :
        ~(\E c \in user_config :
             c.userid = r.userid /\ ~r.repeat /\ c.server = server)}

\* QUERY_SELECT_REMINDER: (userid, channelid) of the subscribers of a server
QUERY_SELECT_REMINDER(tbl, server) ==
    {<<r.userid, r.channelid>> :
        r \in {x \in tbl :
                 \E c \in user_config : c.userid = x.userid /\ c.server = server}}

\* Timers._purge_daily
purge_daily(rem, server, weekly) ==
    [daily |-> QUERY_DELETE_REMINDER(rem.daily, server),
     weekly |-> IF weekly THEN QUERY_DELETE_REMINDER(rem.weekly, server)
                ELSE rem.weekly]

\* an INSERT that leaves a row that conflicts as it is (DO NOTHING)
UpsertKeepsOld(cfg, u, s) ==
    IF \E c \in cfg : c.userid = u THEN cfg
    ELSE cfg \cup {[userid |-> u, server |-> s]}

\* /server update: INSERT ... ON CONFLICT (userid) DO UPDATE SET server=$2
Upsert(cfg, u, s) ==
    {c \in cfg : c.userid # u} \cup {[userid |-> u, server |-> s]}

InitRem ==
    /\ user_config = {}
    /\ reminder = [daily |-> {}, weekly |-> {}]
    /\ channels = Channels
    /\ cb = Idle
    /\ pending = {}
    /\ ncmd = 0
    /\ nfire = 0
    /\ ev = NoEv

\* Miscellaneous._set; the reply names the region
server_update(u, s) ==
    /\ ncmd < MaxCmds
    /\ ncmd' = ncmd + 1
    /\ user_config' = Upsert(user_config, u, s)
    /\ ev' = Followup("server", u, FALSE, 0, s)
    /\ UNCHANGED <<reminder, channels, cb, pending, nfire, notRemVars>>

\* the constraints of the schema the handlers rely on: {0}_reminder.userid
\* references user_config.userid and is unique in its table
ForeignKeyViolation(u) == ~HasConfig(u)
UniqueViolation(k, u) == HasRow(k, u)

\* a handler that takes the foreign-key violation for a uniqueness violation
ReminderCommandNoFK(k, u, rep, c) ==
    /\ ncmd < MaxCmds
    /\ <<u, k>> \notin pending
    /\ c \in channels
    /\ (ForeignKeyViolation(u) \/ UniqueViolation(k, u)) =>
          Cardinality(pending) < MaxPending
    /\ ncmd' = ncmd + 1
    /\ IF ForeignKeyViolation(u) \/ UniqueViolation(k, u)
         THEN /\ pending' = pending \cup {<<u, k>>}
              /\ ev' = Followup(k, u, rep, c, "deferred")
              /\ UNCHANGED reminder
         ELSE /\ reminder' = [reminder EXCEPT ![k] =
                     @ \cup {[userid |-> u, repeat |-> rep, channelid |-> c]}]
              /\ ev' = Followup(k, u, rep, c, "ok")
              /\ UNCHANGED pending
    /\ UNCHANGED <<user_config, channels, cb, nfire, notRemVars>>

\* Timers.daily / Timers.weekly up to the first follow-up or, on a
\* uniqueness violation, up to the await before the DELETE: the transaction
\* of QUERY_INSERT_REMINDER fails with ForeignKeyViolationError (line 228) or
\* with UniqueViolationError (line 231), or stores the row. One command per
\* user and table is suspended before its DELETE at a time
ReminderCommand(k, u, rep, c) ==
    /\ ncmd < MaxCmds
    /\ <<u, k>> \notin pending
    /\ c \in channels
    /\ UniqueViolation(k, u) => Cardinality(pending) < MaxPending
    /\ ncmd' = ncmd + 1
    /\ IF ForeignKeyViolation(u)
         THEN /\ ev' = Followup(k, u, rep, c, "failed")
              /\ UNCHANGED <<reminder, pending>>
         ELSE IF UniqueViolation(k, u)
         THEN /\ pending' = pending \cup {<<u, k>>}
              /\ ev' = Followup(k, u, rep, c, "deferred")
              /\ UNCHANGED reminder
         ELSE /\ reminder' = [reminder EXCEPT ![k] =
                     @ \cup {[userid |-> u, repeat |-> rep, channelid |-> c]}]
              /\ ev' = Followup(k, u, rep, c, "ok")
              /\ UNCHANGED pending
    /\ UNCHANGED <<user_config, channels, cb, nfire, notRemVars>>

\* a cancellation that answers without deleting
CancelKeepsRow(k, u) ==
    /\ <<u, k>> \in pending
    /\ pending' = pending \ {<<u, k>>}
    /\ ev' = Followup(k, u, FALSE, 0, "cancelled")
    /\ UNCHANGED <<user_config, reminder, channels, cb, ncmd, nfire, notRemVars>>

\* the UniqueViolationError handler: DELETE ... WHERE userid=$1, then the
\* follow-up
CancelReminder(k, u) ==
    /\ <<u, k>> \in pending
    /\ pending' = pending \ {<<u, k>>}
    /\ reminder' = [reminder EXCEPT ![k] = {r \in @ : r.userid # u}]
    /\ ev' = Followup(k, u, FALSE, 0, "cancelled")
    /\ UNCHANGED <<user_config, channels, cb, ncmd, nfire, notRemVars>>

daily == \E u \in Users, rep \in BOOLEAN, c \in Channels :
            ReminderCommand("daily", u, rep, c)

weekly == \E u \in Users, rep \in BOOLEAN, c \in Channels :
            ReminderCommand("weekly", u, rep, c)

\* a channel is deleted (or leaves the bot's cache)
ChannelGone(c) ==
    /\ c \in channels
    /\ channels' = channels \ {c}
    /\ ev' = NoEv
    /\ UNCHANGED <<user_config, reminder, cb, pending, ncmd, nfire, notRemVars>>

\* the fetch that opens _daily_callback and _weekly_callback. The timers fire
\* at 04:00 of three time zones, hours apart: one callback runs at a time
StartCallback(kind, server) ==
    /\ cb.pc = "idle"
    /\ nfire < MaxFires
    /\ nfire' = nfire + 1
    /\ \E rows \in Perms(QUERY_SELECT_REMINDER(reminder[kind], server)) :
          cb' = [pc |-> IF rows = <<>> THEN "purge" ELSE "groups",
                 server |-> server, kind |-> kind, rows |-> rows,
                 mentioned |-> {}, fetched |-> rows, posted |-> <<>>,
                 lost |-> {}]
    /\ ev' = NoEv
    /\ UNCHANGED <<user_config, reminder, channels, pending, ncmd, notRemVars>>

daily_callback(server) == StartCallback("daily", server)
weekly_callback(server) == StartCallback("weekly", server)

\* the body of a region timer; the weekday is that of the region's clock
daily_timer(server) ==
    \E weekday \in 0..6 :
        IF weekday = 0 THEN weekly_callback(server)
        ELSE daily_callback(server)

daily_timer_america == daily_timer("america")
daily_timer_asia == daily_timer("asia")
daily_timer_europe == daily_timer("europe")

\* the length of the first run of rows with the same channel (itertools.groupby)
RECURSIVE RunLength(_)
RunLength(rows) ==
    IF Len(rows) <= 1 THEN Len(rows)
    ELSE IF rows[2][2] = rows[1][2] THEN 1 + RunLength(Tail(rows))
    ELSE 1

\* a callback that returns at the first channel it does not find
CallbackGroupReturns ==
    /\ cb.pc = "groups"
    /\ LET channel_id == cb.rows[1][2]
           n == RunLength(cb.rows)
           group == {cb.rows[i][1] : i \in 1..n}
           rest == SubSeq(cb.rows, n + 1, Len(cb.rows))
           nextpc == IF rest = <<>> THEN "purge" ELSE "groups"
       IN  IF channel_id \notin channels
             THEN /\ reminder' = [reminder EXCEPT ![cb.kind] =
                         {r \in @ : r.channelid # channel_id}]
                  /\ ev' = Deleted("nochannel", cb.kind, channel_id,
                         {r \in reminder[cb.kind] : r.channelid = channel_id})
                  /\ cb' = [cb EXCEPT !.rows = <<>>, !.pc = "purge",
                                      !.lost = @ \cup {channel_id}]
             ELSE /\ ev' = Message(cb.kind, channel_id, group)
                  /\ cb' = [cb EXCEPT !.rows = rest, !.pc = nextpc,
                                      !.mentioned = @ \cup group,
                                      !.posted = Append(@, channel_id)]
                  /\ UNCHANGED reminder
    /\ UNCHANGED <<user_config, channels, pending, ncmd, nfire, notRemVars>>

\* one iteration of the for loop of a callback
CallbackGroup ==
    /\ cb.pc = "groups"
    /\ LET channel_id == cb.rows[1][2]
           n == RunLength(cb.rows)
           group == {cb.rows[i][1] : i \in 1..n}
           rest == SubSeq(cb.rows, n + 1, Len(cb.rows))
           nextpc == IF rest = <<>> THEN "purge" ELSE "groups"
       IN  IF channel_id \notin channels
             THEN /\ reminder' = [reminder EXCEPT ![cb.kind] =
                         {r \in @ : r.channelid # channel_id}]
                  /\ ev' = Deleted("nochannel", cb.kind, channel_id,
                         {r \in reminder[cb.kind] : r.channelid = channel_id})
                  /\ cb' = [cb EXCEPT !.rows = rest, !.pc = nextpc,
                                      !.lost = @ \cup {channel_id}]
             ELSE /\ ev' = Message(cb.kind, channel_id, group)
                  /\ cb' = [cb EXCEPT !.rows = rest, !.pc = nextpc,
                                      !.mentioned = @ \cup group,
                                      !.posted = Append(@, channel_id)]
                  /\ UNCHANGED reminder
    /\ UNCHANGED <<user_config, channels, pending, ncmd, nfire, notRemVars>>

\* the _purge_daily(server) that ends both callbacks
CallbackPurge ==
    /\ cb.pc = "purge"
    /\ reminder' = purge_daily(reminder, cb.server, FALSE)
    /\ ev' = Deleted("purge", cb.kind, 0,
                (reminder.daily \cup reminder.weekly)
                    \ (reminder'.daily \cup reminder'.weekly))
    /\ cb' = Idle
    /\ UNCHANGED <<user_config, channels, pending, ncmd, nfire, notRemVars>>

\* the tables once MaxSubs users have set a server and subscribed to both
\* resets, each in some channel
Subscribers == 1..MaxSubs
InitSubscribed ==
    /\ \E srv \in [Subscribers -> {"asia", "europe"}],
          ch \in [Subscribers -> Channels],
          rep \in [Subscribers -> BOOLEAN] :
          /\ user_config =
                {[userid |-> u, server |-> srv[u]] : u \in Subscribers}
          /\ \E rows \in {{[userid |-> u, repeat |-> rep[u],
                              channelid |-> ch[u]] : u \in Subscribers}} :
                reminder = [daily |-> rows, weekly |-> rows]
    /\ channels = Channels
    /\ cb = Idle
    /\ pending = {}
    /\ ncmd = 0
    /\ nfire = 0
    /\ ev = NoEv

\* the region timers and their callbacks, without the commands
ResetStep ==
    \/ \E c \in Channels : ChannelGone(c)
    \/ daily_timer_america
    \/ daily_timer_asia
    \/ daily_timer_europe
    \/ CallbackGroup
    \/ CallbackPurge

RemStep ==
    \/ \E u \in Users, s \in Servers : server_update(u, s)
    \/ daily
    \/ weekly
    \/ \E k \in Kinds, u \in Users : CancelReminder(k, u)
    \/ \E c \in Channels : ChannelGone(c)
    \/ daily_timer_america
    \/ daily_timer_asia
    \/ daily_timer_europe
    \/ CallbackGroup
    \/ CallbackPurge


\* ----------------------------------------------------------- /data import
\* the bytes of "[", "]" and "1", and a byte that no UTF-8 text holds
Bytes == {91, 93, 49, 128}
Attachments == UNION {[1..n -> Bytes] : n \in 0..MaxLen}

\* bytes.decode("utf-8") succeeds
Utf8(bs) == \A i \in 1..Len(bs) : bs[i] < 128

\* the JSON values over the three characters: integers and nested arrays
\* of at most one element
RECURSIVE IsJsonValue(_)
IsJsonValue(s) ==
    \/ Len(s) >= 1 /\ \A i \in 1..Len(s) : s[i] = 49
    \/ /\ Len(s) >= 2
       /\ s[1] = 91
       /\ s[Len(s)] = 93
       /\ Len(s) = 2 \/ IsJsonValue(SubSeq(s, 2, Len(s) - 1))

\* json.loads(read): bytes are decoded, then parsed
json_loads(bs) ==
    IF ~Utf8(bs) THEN "UnicodeDecodeError"
    ELSE IF IsJsonValue(bs) THEN "ok"
    ELSE "JSONDecodeError"

InitImport ==
    /\ attachment = <<>>
    /\ ipc = "idle"
    /\ ireply = "none"
    /\ isaved = FALSE
    /\ iraised = "none"
    /\ dbwrites = 0

\* line 84-86: the interaction is deferred and the attachment read
ImportRead(bs) ==
    /\ ipc = "idle"
    /\ attachment' = bs
    /\ ipc' = "loads"
    /\ ireply' = "none"
    /\ isaved' = FALSE
    /\ iraised' = "none"
    /\ dbwrites' = 0
    /\ UNCHANGED <<notImportVars>>

\* line 88-92: json.loads; JSONDecodeError alone is caught
ImportLoads ==
    /\ ipc = "loads"
    /\ LET r == json_loads(attachment)
       IN  /\ ipc' = IF r = "ok" THEN "save" ELSE "done"
           /\ ireply' = IF r = "JSONDecodeError" THEN "decode error" ELSE ireply
           /\ iraised' = IF r = "UnicodeDecodeError" THEN r ELSE iraised
    /\ UNCHANGED <<attachment, isaved, dbwrites, notImportVars>>

\* Data.save_data: line 71 unpacks MISSING, which is not iterable, so the
\* call raises TypeError before the connection is acquired (line 75) and
\* before the counts are returned (line 79)
save_data == "TypeError"

\* line 94-100: save_data is called; ValueError alone is caught (line 96),
\* and the 'Data updated successfully' follow-up is line 100
ImportSave ==
    /\ ipc = "save"
    /\ isaved' = TRUE
    /\ ireply' = IF save_data = "ok" THEN "updated"
                 ELSE IF save_data = "ValueError" THEN "save error"
                 ELSE ireply
    /\ iraised' = IF save_data \in {"ok", "ValueError"} THEN iraised
                  ELSE save_data
    /\ ipc' = "done"
    /\ UNCHANGED <<attachment, dbwrites, notImportVars>>

\* the handler has returned or raised; the next interaction may come
ImportEnd ==
    /\ ipc = "done"
    /\ ipc' = "idle"
    /\ UNCHANGED <<attachment, ireply, isaved, iraised, dbwrites, notImportVars>>

NextImport ==
    \/ \E bs \in Attachments : ImportRead(bs)
    \/ ImportLoads
    \/ ImportSave
    \/ ImportEnd



\* ------------------------------------------------- startup and shutdown
\* Kamisato.setup_hook runs once, inside login; Kamisato.close is called by
\* /dev shutdown and when the runner leaves 'async with bot', so two calls
\* can overlap. The tunnel process can exit by itself at any time.
Closers == 1..MaxCloses
Exts == 1..NumExts

InitBot ==
    /\ ssh_tunnel \in BOOLEAN
    /\ ssh_tunnel_proc = "MISSING"
    /\ proc = "none"
    /\ db = "MISSING"
    /\ pool = "none"
    /\ schema = FALSE
    /\ extensions = {}
    /\ conn = "open"
    /\ spc = "start"
    /\ cpc = [c \in Closers |-> "idle"]

\* the other parts run with no tunnel configured
NoTunnel == ssh_tunnel = FALSE

\* setup_hook line 160 and start_database line 114: the tunnel is started
\* first when one is configured
start_database ==
    /\ spc = "start"
    /\ spc' = IF ssh_tunnel THEN "spawn" ELSE "create_pool"
    /\ UNCHANGED <<ssh_tunnel, ssh_tunnel_proc, proc, db, pool, schema,
                   extensions, conn, cpc, notBotVars>>

\* start_ssh_tunnel lines 139-145: a recorded process means 'already
\* running'; otherwise ssh is spawned and recorded
start_ssh_tunnel ==
    /\ spc = "spawn"
    /\ IF ssh_tunnel_proc # "MISSING"
         THEN /\ spc' = "create_pool"
              /\ UNCHANGED <<ssh_tunnel_proc, proc>>
         ELSE /\ ssh_tunnel_proc' = "proc"
              /\ proc' = "running"
              /\ spc' = "sleep"
    /\ UNCHANGED <<ssh_tunnel, db, pool, schema, extensions, conn, cpc,
                   notBotVars>>

\* start_ssh_tunnel lines 147-149: after three seconds a process that has
\* exited makes the start fail with RuntimeError
TunnelChecked ==
    /\ spc = "sleep"
    /\ spc' = IF proc = "exited" THEN "RuntimeError" ELSE "create_pool"
    /\ UNCHANGED <<ssh_tunnel, ssh_tunnel_proc, proc, db, pool, schema,
                   extensions, conn, cpc, notBotVars>>

\* start_database lines 119-120
create_pool ==
    /\ spc = "create_pool"
    /\ pool' = "open"
    /\ db' = "pool"
    /\ spc' = "schema"
    /\ UNCHANGED <<ssh_tunnel, ssh_tunnel_proc, proc, schema, extensions,
                   conn, cpc, notBotVars>>

\* setup_hook lines 162-165
execute_schema ==
    /\ spc = "schema"
    /\ schema' = TRUE
    /\ spc' = "extensions"
    /\ UNCHANGED <<ssh_tunnel, ssh_tunnel_proc, proc, db, pool, extensions,
                   conn, cpc, notBotVars>>

\* setup_hook lines 167-168: the extensions of the configuration, in order
load_extension ==
    /\ spc = "extensions"
    /\ LET e == Cardinality(extensions) + 1
       IN  /\ extensions' = extensions \cup {e}
           /\ spc' = IF e = NumExts THEN "sync" ELSE "extensions"
    /\ UNCHANGED <<ssh_tunnel, ssh_tunnel_proc, proc, db, pool, schema, conn,
                   cpc, notBotVars>>

\* setup_hook line 171
tree_sync ==
    /\ spc = "sync"
    /\ spc' = "done"
    /\ UNCHANGED <<ssh_tunnel, ssh_tunnel_proc, proc, db, pool, schema,
                   extensions, conn, cpc, notBotVars>>

\* start_database is called again after the RuntimeError of the tunnel
StartAgain ==
    /\ spc = "RuntimeError"
    /\ \A c \in Closers : cpc[c] = "idle"
    /\ spc' = "start"
    /\ UNCHANGED <<ssh_tunnel, ssh_tunnel_proc, proc, db, pool, schema,
                   extensions, conn, cpc, notBotVars>>

\* an await of setup_hook raises (the spawn, the pool, the schema, an
\* extension, the sync) or the startup is interrupted
SetupFails ==
    /\ spc \in {"spawn", "create_pool", "schema", "extensions", "sync"}
    /\ spc' = "failed"
    /\ UNCHANGED <<ssh_tunnel, ssh_tunnel_proc, proc, db, pool, schema,
                   extensions, conn, cpc, notBotVars>>

\* the ssh process exits, by itself or after SIGTERM
TunnelExits ==
    /\ proc \in {"running", "signalled"}
    /\ proc' = "exited"
    /\ UNCHANGED <<ssh_tunnel, ssh_tunnel_proc, db, pool, schema, extensions,
                   conn, spc, cpc, notBotVars>>

\* Kamisato.close line 174, called once startup is over
close(c) ==
    /\ cpc[c] = "idle"
    /\ spc \in {"done", "failed", "RuntimeError"}
    /\ conn = "open"
    /\ cpc' = [cpc EXCEPT ![c] = "stop_database"]
    /\ UNCHANGED <<ssh_tunnel, ssh_tunnel_proc, proc, db, pool, schema,
                   extensions, conn, spc, notBotVars>>

\* a stop_database that goes to the tunnel without closing the pool
StopDatabaseKeepsPool(c) ==
    /\ cpc[c] = "stop_database"
    /\ cpc' = [cpc EXCEPT ![c] = "stop_tunnel"]
    /\ UNCHANGED <<ssh_tunnel, ssh_tunnel_proc, proc, db, pool, schema,
                   extensions, conn, spc, notBotVars>>

\* stop_database lines 125-129: the pool is closed when there is one
stop_database(c) ==
    /\ cpc[c] = "stop_database"
    /\ IF db # "MISSING"
         THEN /\ cpc' = [cpc EXCEPT ![c] = "db_close"]
              /\ pool' = IF pool = "open" THEN "closing" ELSE pool
         ELSE /\ cpc' = [cpc EXCEPT ![c] = "stop_tunnel"]
              /\ UNCHANGED pool
    /\ UNCHANGED <<ssh_tunnel, ssh_tunnel_proc, proc, db, schema, extensions,
                   conn, spc, notBotVars>>

\* a stop_database without the finally clause of line 134
PoolClosedKeepsRef(c, outcome) ==
    /\ cpc[c] = "db_close"
    /\ pool \in {"closed", "terminated"} => outcome = "ok"
    /\ pool' = IF pool \in {"closed", "terminated"} THEN pool
               ELSE IF outcome = "ok" THEN "closed" ELSE "terminated"
    /\ cpc' = [cpc EXCEPT ![c] =
                  IF \/ outcome = "ok"
                     \/ outcome = "timeout" /\ db # "MISSING"
                    THEN "stop_tunnel" ELSE "raised"]
    /\ UNCHANGED <<ssh_tunnel, ssh_tunnel_proc, proc, db, schema, extensions,
                   conn, spc, notBotVars>>

\* stop_database lines 129-134: Pool.close returns, or times out and the
\* pool is terminated (line 132), or raises, in which case asyncpg has
\* terminated the pool; the reference is unset in every case (line 134).
\* Line 132 reads self.db again, which another close may have unset
PoolClosed(c, outcome) ==
    /\ cpc[c] = "db_close"
    /\ pool \in {"closed", "terminated"} => outcome = "ok"
    /\ pool' = IF pool \in {"closed", "terminated"} THEN pool
               ELSE IF outcome = "ok" THEN "closed" ELSE "terminated"
    /\ db' = "MISSING"
    /\ cpc' = [cpc EXCEPT ![c] =
                  IF \/ outcome = "ok"
                     \/ outcome = "timeout" /\ db # "MISSING"
                    THEN "stop_tunnel" ELSE "raised"]
    /\ UNCHANGED <<ssh_tunnel, ssh_tunnel_proc, proc, schema, extensions,
                   conn, spc, notBotVars>>

\* stop_ssh_tunnel lines 152-155: terminate() raises ProcessLookupError on a
\* process that has exited
stop_ssh_tunnel(c) ==
    /\ cpc[c] = "stop_tunnel"
    /\ IF ssh_tunnel_proc = "MISSING"
         THEN /\ cpc' = [cpc EXCEPT ![c] = "super_close"]
              /\ UNCHANGED proc
         ELSE IF proc = "exited"
         THEN /\ cpc' = [cpc EXCEPT ![c] = "raised"]
              /\ UNCHANGED proc
         ELSE /\ proc' = "signalled"
              /\ cpc' = [cpc EXCEPT ![c] = "wait"]
    /\ UNCHANGED <<ssh_tunnel, ssh_tunnel_proc, db, pool, schema, extensions,
                   conn, spc, notBotVars>>

\* stop_ssh_tunnel lines 156-157: the process has exited, the record is unset
TunnelWaited(c) ==
    /\ cpc[c] = "wait"
    /\ proc = "exited"
    /\ ssh_tunnel_proc' = "MISSING"
    /\ cpc' = [cpc EXCEPT ![c] = "super_close"]
    /\ UNCHANGED <<ssh_tunnel, proc, db, pool, schema, extensions, conn, spc,
                   notBotVars>>

\* Kamisato.close line 177: the connection to the platform is closed
super_close(c) ==
    /\ cpc[c] = "super_close"
    /\ conn' = "closed"
    /\ cpc' = [cpc EXCEPT ![c] = "done"]
    /\ UNCHANGED <<ssh_tunnel, ssh_tunnel_proc, proc, db, pool, schema,
                   extensions, spc, notBotVars>>

NextBot ==
    \/ start_database
    \/ start_ssh_tunnel
    \/ TunnelChecked
    \/ create_pool
    \/ execute_schema
    \/ load_extension
    \/ tree_sync
    \/ SetupFails
    \/ StartAgain
    \/ TunnelExits
    \/ \E c \in Closers :
          \/ close(c)
          \/ stop_database(c)
          \/ \E outcome \in {"ok", "timeout", "error"} : PoolClosed(c, outcome)
          \/ stop_ssh_tunnel(c)
          \/ TunnelWaited(c)
          \/ super_close(c)

\* ---------------------------------------------------- developer console
\* The commands of the Developers group. discord.py calls interaction_check
\* of the object a command is bound to before the command's callback, and
\* raises CheckFailure instead of calling it when the check returns False.
MAYA_ID == "455289384187592704"
DevUsers == {MAYA_ID, "639770490755612672", "864774293300838420"}
DevCommands == {"cog load", "cog reload", "cog list", "sync", "shutdown",
                "sql", "eval", "shell", "presence"}
NoReq == [user |-> "", cmd |-> ""]

InitDev ==
    /\ dreq = NoReq
    /\ dpc = "idle"
    /\ dran = {}

\* a check that lets every user through
CheckAllowsAll(interaction) == TRUE

\* Developers.interaction_check
interaction_check(interaction) == interaction.user = MAYA_ID

\* a user invokes a /dev command
DevInvoke(u, cmd) ==
    /\ dpc \in {"idle", "rejected", "done"}
    /\ dreq' = [user |-> u, cmd |-> cmd]
    /\ dpc' = "check"
    /\ UNCHANGED <<dran, notDevVars>>

\* the dispatch awaits interaction_check and goes on to the handler only
\* when it returned True
DevCheck ==
    /\ dpc = "check"
    /\ dpc' = IF interaction_check(dreq) THEN "run" ELSE "rejected"
    /\ UNCHANGED <<dreq, dran, notDevVars>>

\* the handler of the command runs
DevRun ==
    /\ dpc = "run"
    /\ dran' = dran \cup {<<dreq.user, dreq.cmd>>}
    /\ dpc' = "done"
    /\ UNCHANGED <<dreq, notDevVars>>

NextDev ==
    \/ \E u \in DevUsers, cmd \in DevCommands : DevInvoke(u, cmd)
    \/ DevCheck
    \/ DevRun

\* ------------------------------------------------------------ Paginator
\* Strings are sequences of code points; len() is Len.
U200B == 8203
Newline == 10
Fix == 96
Letters == {97, 98}
Strings(n) == UNION {[1..m -> Letters] : m \in 0..n}
Values == Strings(MaxValue)
Fixes == {<<>>, <<Fix>>}

\* Paginator._into_fix(value), with cur the current page: 'value or
\* self._current_page or U200B' between the prefix and the suffix
into_fix(value, cur) ==
    prefix \o (IF value # <<>> THEN value
               ELSE IF cur # <<>> THEN cur
               ELSE <<U200B>>) \o suffix

\* the property Paginator.pages
pages ==
    IF current_page # <<>>
      THEN Append(page_list, into_fix(<<>>, current_page))
      ELSE page_list

\* the Paginator's state as a record, for the calls that chain
Pg == [list |-> page_list, cur |-> current_page, app |-> appended,
       raised |-> FALSE]

\* Paginator.next_page
next_page_of(pg) ==
    [pg EXCEPT !.list = Append(pg.list, into_fix(<<>>, pg.cur)),
               !.cur = <<>>]

\* an append that starts the new page with the value and the old page
AppendKeepsOld(pg, value) ==
    IF Len(into_fix(value, pg.cur)) > max_size
      THEN [pg EXCEPT !.raised = TRUE]
      ELSE LET q == IF Len(into_fix(pg.cur \o value, pg.cur)) > max_size
                      THEN [next_page_of(pg) EXCEPT !.cur = pg.cur]
                      ELSE pg
           IN  [q EXCEPT !.cur = @ \o value, !.app = @ \o value]

\* Paginator.append(value): ValueError when the value alone does not fit,
\* a new page when the current page with the value does not fit
append_to(pg, value) ==
    IF Len(into_fix(value, pg.cur)) > max_size
      THEN [pg EXCEPT !.raised = TRUE]
      ELSE LET q == IF Len(into_fix(pg.cur \o value, pg.cur)) > max_size
                      THEN next_page_of(pg)
                      ELSE pg
           IN  [q EXCEPT !.cur = @ \o value, !.app = @ \o value]

\* Paginator.appendlines: the values are appended in order, up to the first
\* that raises
RECURSIVE append_all(_, _)
append_all(pg, values) ==
    IF values = <<>> \/ pg.raised THEN pg
    ELSE append_all(append_to(pg, Head(values)), Tail(values))

InitPag ==
    /\ max_size \in 0..MaxSize
    /\ prefix \in Fixes
    /\ suffix \in Fixes
    /\ page_list = <<>>
    /\ current_page = <<>>
    /\ appended = <<>>
    /\ ncall = 0
    /\ nnext = 0
    /\ praised = FALSE
    /\ view = FALSE
    /\ page_index = 0
    /\ disabled = [start |-> TRUE, left |-> TRUE, right |-> FALSE,
                   end |-> FALSE, stop |-> FALSE]
    /\ wrapped = FALSE

\* one Paginator, fixed at construction, for the other parts
DefaultPag == max_size = MaxSize /\ prefix = <<>> /\ suffix = <<>>

\* the state a call leaves
Called(pg) ==
    /\ page_list' = pg.list
    /\ current_page' = pg.cur
    /\ appended' = pg.app
    /\ praised' = pg.raised
    /\ ncall' = ncall + 1
    /\ UNCHANGED <<max_size, prefix, suffix, view, page_index, disabled,
                   wrapped, notPagVars>>

next_page ==
    /\ ~view /\ ncall < MaxCalls
    /\ nnext' = nnext + 1
    /\ Called(next_page_of(Pg))

append(value) ==
    /\ ~view /\ ncall < MaxCalls
    /\ UNCHANGED nnext
    /\ Called(append_to(Pg, value))

appendln(value) ==
    /\ ~view /\ ncall < MaxCalls
    /\ UNCHANGED nnext
    /\ Called(append_to(Pg, value \o <<Newline>>))

appendlines(values) ==
    /\ ~view /\ ncall < MaxCalls
    /\ UNCHANGED nnext
    /\ Called(append_all(Pg, values))

\* ---------------------------------------------------- ReactivePaginator
\* ReactivePaginator.__init__ over the finished Paginator, as /dev shell
\* builds it; the decorators disable the first two buttons
MakeView ==
    /\ ~view
    /\ Len(pages) >= 1
    /\ view' = TRUE
    /\ page_index' = 0
    /\ disabled' = [start |-> TRUE, left |-> TRUE,
                    right |-> Len(pages) = 1, end |-> Len(pages) = 1,
                    stop |-> FALSE]
    /\ UNCHANGED <<max_size, prefix, suffix, page_list, current_page,
                   appended, ncall, nnext, praised, wrapped,
                   notPagVars>>

\* ReactivePaginator._rotate: the index it leaves
rotate(dir) ==
    LET i == page_index + dir
    IN  IF i < 0 THEN Len(pages) - 1
        ELSE IF i >= Len(pages) THEN 0
        ELSE i

\* an update that never disables the forward buttons
UpdateKeepsRight(idx) ==
    [disabled EXCEPT !.left = (idx = 0), !.start = (idx = 0)]

\* ReactivePaginator._update_msg: the flags it sets for the index
update_msg(idx) ==
    [disabled EXCEPT !.left = (idx = 0), !.start = (idx = 0),
                     !.right = (idx = Len(pages) - 1),
                     !.end = (idx = Len(pages) - 1)]

\* what a press of an enabled button leaves
Pressed(idx, wrap) ==
    /\ view
    /\ page_index' = idx
    /\ wrapped' = (wrapped \/ wrap)
    /\ disabled' = update_msg(idx)
    /\ UNCHANGED <<max_size, prefix, suffix, page_list, current_page,
                   appended, ncall, nnext, praised, view, notPagVars>>

\* the button handlers _start, left, right and _end
PressStart == ~disabled.start /\ Pressed(0, FALSE)
PressLeft == ~disabled.left /\ Pressed(rotate(-1), page_index - 1 < 0)
PressRight ==
    ~disabled.right /\ Pressed(rotate(1), page_index + 1 >= Len(pages))
PressEnd == ~disabled.end /\ Pressed(Len(pages) - 1, FALSE)

\* the handler _stop disables every button
PressStop ==
    /\ view
    /\ ~disabled.stop
    /\ disabled' = [b \in DOMAIN disabled |-> TRUE]
    /\ UNCHANGED <<max_size, prefix, suffix, page_list, current_page,
                   appended, ncall, nnext, praised, view, page_index,
                   wrapped, notPagVars>>

NextPag ==
    \/ next_page
    \/ \E value \in Values : append(value)
    \/ \E value \in Values : appendln(value)
    \/ \E v1, v2 \in Values : appendlines(<<v1, v2>>)
    \/ MakeView
    \/ PressStart
    \/ PressLeft
    \/ PressRight
    \/ PressEnd
    \/ PressStop

\* ------------------------------------------------------ dates and resets
\* The wall clock counts minutes of UTC from 00:00 of the epoch day; the
\* range covers a year end, month ends and 29 February.
Epoch == [year |-> 2023, month |-> 12, day |-> 29]
MinutesOfHour == {0, 30}
Instants ==
    {d * 1440 + h * 60 + m : d \in 1..MaxDay, h \in 0..23, m \in MinutesOfHour}

IsLeap(y) == (y % 4 = 0 /\ y % 100 # 0) \/ y % 400 = 0
DaysIn(y, m) ==
    IF m = 2 THEN (IF IsLeap(y) THEN 29 ELSE 28)
    ELSE IF m \in {4, 6, 9, 11} THEN 30
    ELSE 31
NextDate(d) ==
    IF d.day < DaysIn(d.year, d.month) THEN [d EXCEPT !.day = @ + 1]
    ELSE IF d.month < 12 THEN [year |-> d.year, month |-> d.month + 1, day |-> 1]
    ELSE [year |-> d.year + 1, month |-> 1, day |-> 1]

\* date.toordinal(): days since 0001-01-01, that day being 1
RECURSIVE DaysBeforeMonth(_, _)
DaysBeforeMonth(y, m) ==
    IF m = 1 THEN 0 ELSE DaysBeforeMonth(y, m - 1) + DaysIn(y, m - 1)
toordinal(d) ==
    LET y == d.year - 1
    IN  y * 365 + y \div 4 - y \div 100 + y \div 400
          + DaysBeforeMonth(d.year, d.month) + d.day

\* the calendar date of each day of the range, and the day of a date
Dates[n \in 0..(MaxDay + 3)] ==
    IF n = 0 THEN Epoch ELSE NextDate(Dates[n - 1])
DayNo(date) == toordinal(date) - toordinal(Epoch)

\* zoneinfo.ZoneInfo(name).utcoffset, in minutes: the Etc/GMT names carry
\* the POSIX sign, so Etc/GMT+5 is five hours behind UTC
ZoneInfo ==
    [n \in {"Etc/GMT+5", "Etc/GMT-8", "Etc/GMT-1", "Etc/UTC"} |->
        CASE n = "Etc/GMT+5" -> -300
          [] n = "Etc/GMT-8" -> 480
          [] n = "Etc/GMT-1" -> 60
          [] n = "Etc/UTC" -> 0]

\* misc.timezones
timezones ==
    [america |-> "Etc/GMT+5", asia |-> "Etc/GMT-8", europe |-> "Etc/GMT-1"]

\* the zones of the three tasks.loop decorators and of their bodies
timer_tz ==
    [america |-> "Etc/GMT+5", asia |-> "Etc/GMT-8", europe |-> "Etc/GMT-1"]

\* datetime.datetime.now(tz)
datetime_now(tz) ==
    LET t == clock + ZoneInfo[tz]
    IN  [date |-> Dates[t \div 1440], hour |-> (t % 1440) \div 60,
         minute |-> t % 60, tz |-> tz]

\* dt + datetime.timedelta(days=n)
timedelta_days(dt, n) == [dt EXCEPT !.date = Dates[DayNo(@) + n]]

\* datetime.datetime(year, month, day, hour, tzinfo=tz) raises ValueError
\* when the day is out of range for the month
ValidDate(y, m, d) == m \in 1..12 /\ d \in 1..DaysIn(y, m)

\* dt.astimezone(UTC): the instant of a local date and time
astimezone_utc(date, hour, tz) ==
    DayNo(date) * 1440 + hour * 60 - ZoneInfo[tz]

\* date.weekday(): Monday is 0
weekday(date) == (toordinal(date) + 6) % 7

NoDate == [year |-> 0, month |-> 0, day |-> 0]
NoRes == [op |-> "none", server |-> "", failed |-> FALSE, day |-> NoDate,
          reset |-> 0, kind |-> ""]

InitClock ==
    /\ clock \in Instants
    /\ kres = NoRes

\* the other parts do not read the clock
Midnight == clock = 1440

\* Miscellaneous.today lines 106-112: the game day and the reset
today(server) ==
    /\ LET tz == timezones[server]
           t == datetime_now(tz)
           g == IF t.hour < 4 THEN timedelta_days(t, -1) ELSE t
           ok == ValidDate(g.date.year, g.date.month, g.date.day + 1)
       IN  kres' = [NoRes EXCEPT
                      !.op = "today", !.server = server, !.failed = ~ok,
                      !.day = g.date,
                      !.reset = IF ok
                                  THEN astimezone_utc(
                                          [g.date EXCEPT !.day = @ + 1], 4, tz)
                                  ELSE 0]
    /\ UNCHANGED <<clock, notClockVars>>

\* Timers.daily lines 238-242: the reset time the follow-up reports
daily_reset(server) ==
    /\ LET tz == timezones[server]
           t == datetime_now(tz)
           n == IF t.hour > 4 THEN timedelta_days(t, 1) ELSE t
       IN  kres' = [NoRes EXCEPT
                      !.op = "daily", !.server = server, !.day = n.date,
                      !.reset = astimezone_utc(n.date, 4, tz)]
    /\ UNCHANGED <<clock, notClockVars>>

\* a weekday read off the UTC date
WeekdayUtc(server) == weekday(datetime_now("Etc/UTC").date)

\* the first line of each daily_timer_*: the weekday in the timer's zone
timer_weekday(server) == weekday(datetime_now(timer_tz[server]).date)

\* tasks.loop(time=04:00 in the zone): the timer of a region fires and
\* chooses its callback (lines 188-210)
timer_fires(server) ==
    /\ LET t == datetime_now(timer_tz[server])
       IN  t.hour = 4 /\ t.minute = 0
    /\ kres' = [NoRes EXCEPT
                  !.op = "timer", !.server = server,
                  !.kind = IF timer_weekday(server) = 0
                             THEN "weekly" ELSE "daily"]
    /\ UNCHANGED <<clock, notClockVars>>

NextClock ==
    \/ \E server \in Servers : today(server)
    \/ \E server \in Servers : daily_reset(server)
    \/ \E server \in Servers : timer_fires(server)

\* -------------------------------------------------------------------- trim
\* A text is the sequence of its characters, as in the Paginator.

DefaultMax == 1990
CodeBlockMax == 1900
Ellipsis == 8230

\* the default of the parameter end
DefaultEnd == <<Ellipsis>>

\* a text of n letters
Text(n) == [i \in 1..n |-> IF i % 2 = 1 THEN 97 ELSE 98]

\* the lengths of the texts tried: short ones and those around the limits
TextLens ==
    (0..MaxText) \cup {1849, 1850, 1851, 1899, 1900, 1901, 1989, 1990, 1991}

\* the values of max tried; None stands for utils.MISSING, which is falsy as
\* 0 is
MaxArgs == (None..MaxText) \cup {1850}

trim(text, max, code_block, end) ==
    LET new_max == IF max # None THEN max
                   ELSE IF code_block THEN CodeBlockMax ELSE DefaultMax
        \* text[:new_max]
        trimmed == SubSeq(text, 1,
                          IF Len(text) < new_max THEN Len(text) ELSE new_max)
        marked == IF Len(text) >= new_max THEN trimmed \o end ELSE trimmed
    IN  IF code_block
        THEN <<Fix, Fix, Fix, Newline>> \o marked \o <<Newline, Fix, Fix, Fix>>
        ELSE marked

NoTrim == [op |-> "none", text |-> <<>>, max |-> None, code_block |-> FALSE,
           out |-> <<>>]

InitTrim == tres = NoTrim

\* a call of trim, as Developers.reload and Developers.sync make it
CallTrim ==
    /\ \E n \in TextLens, max \in MaxArgs, code_block \in BOOLEAN :
          tres' = [op |-> "trim", text |-> Text(n), max |-> max,
                   code_block |-> code_block,
                   out |-> trim(Text(n), max, code_block, DefaultEnd)]
    /\ UNCHANGED notTrimVars

NextTrim == CallTrim

\* ------------------------------------------------------------ MergeStream
\* The process writes lines to its two pipes and exits, which closes them.
\* A line is <<stream, number>>; decoding and stripping it is left out.

Streams == {"stdout", "stderr"}

\* the None that ends the queue
QueueEnd == <<"None", 0>>

InitMerge ==
    /\ stream = [s \in Streams |-> <<>>]
    /\ written = [s \in Streams |-> <<>>]
    /\ returncode = None
    /\ queue = <<>>
    /\ reader = [s \in Streams |-> "created"]
    /\ stopper = "created"
    /\ yielded = <<>>
    /\ stopped = FALSE

\* the process writes a line to one of its pipes
ProcessWrites(s) ==
    /\ returncode = None
    /\ Len(written[s]) < MaxLines
    /\ LET line == <<s, Len(written[s]) + 1>>
       IN  /\ written' = [written EXCEPT ![s] = Append(@, line)]
           /\ stream' = [stream EXCEPT ![s] = Append(@, line)]
    /\ UNCHANGED <<returncode, queue, reader, stopper, yielded, stopped>>
    /\ UNCHANGED notMergeVars

\* the process exits and the event loop records its return code
ProcessExits ==
    /\ returncode = None
    /\ returncode' = 1
    /\ UNCHANGED <<stream, written, queue, reader, stopper, yielded, stopped>>
    /\ UNCHANGED notMergeVars

\* __stream_task: async for line in stream: await queue.put(line). The queue
\* is unbounded, so the task runs until the reader has no line buffered, and
\* it ends at the end of the stream.
stream_task(s) ==
    /\ reader[s] \in {"created", "reading"}
    /\ \/ /\ stream[s] # <<>>
          /\ queue' = queue \o stream[s]
          /\ stream' = [stream EXCEPT ![s] = <<>>]
          /\ reader' = [reader EXCEPT ![s] = "reading"]
       \/ /\ stream[s] = <<>>
          /\ returncode # None
          /\ reader' = [reader EXCEPT ![s] = "done"]
          /\ UNCHANGED <<stream, queue>>
    /\ UNCHANGED <<written, returncode, stopper, yielded, stopped>>
    /\ UNCHANGED notMergeVars

\* __stop_task up to process.wait(): wait returns at once when the return
\* code is already recorded, whatever the pipes still hold
stop_task ==
    /\ stopper = "created"
    /\ IF returncode # None
       THEN /\ queue' = Append(queue, QueueEnd)
            /\ stopper' = "done"
       ELSE /\ stopper' = "wait"
            /\ UNCHANGED queue
    /\ UNCHANGED <<stream, written, returncode, reader, yielded, stopped>>
    /\ UNCHANGED notMergeVars

\* process.wait() returns to a task suspended in it: the event loop wakes
\* the waiters once the process has exited and both pipes are closed, after
\* the readers, which by then have reached the end of their streams
WaitReturns ==
    /\ stopper = "wait"
    /\ returncode # None
    /\ \A s \in Streams : reader[s] = "done"
    /\ queue' = Append(queue, QueueEnd)
    /\ stopper' = "done"
    /\ UNCHANGED <<stream, written, returncode, reader, yielded, stopped>>
    /\ UNCHANGED notMergeVars

\* __anext__: the next item of the queue; None cancels the readers and ends
\* the iteration
anext ==
    /\ ~stopped
    /\ queue # <<>>
    /\ queue' = Tail(queue)
    /\ IF Head(queue) = QueueEnd
       THEN /\ stopped' = TRUE
            /\ reader' = [s \in Streams |->
                            IF reader[s] = "done" THEN "done" ELSE "cancelled"]
            /\ UNCHANGED yielded
       ELSE /\ yielded' = Append(yielded, Head(queue))
            /\ UNCHANGED <<stopped, reader>>
    /\ UNCHANGED <<stream, written, returncode, stopper>>
    /\ UNCHANGED notMergeVars

NextMerge ==
    \/ \E s \in Streams : ProcessWrites(s)
    \/ ProcessExits
    \/ \E s \in Streams : stream_task(s)
    \/ stop_task
    \/ WaitReturns
    \/ anext

\* --------------------------------------------------------- Context.acquire
\* One task uses the Context; its acquire blocks nest. A connection is a
\* number, in the order the pool hands them out.

Conns == 1..MaxConns

InitCtx ==
    /\ connection = None
    /\ blocks = <<>>
    /\ taken = 0
    /\ released = [c \in Conns |-> 0]
    /\ release_calls = <<>>
    /\ exc = "none"

\* entering async with ctx.acquire(): the code of acquire up to its yield
acquire ==
    /\ exc = "none"
    /\ Len(blocks) < MaxDepth
    /\ Len(blocks) + Len(release_calls) < MaxReleases
    /\ IF connection = None
       THEN /\ taken < MaxConns
            /\ taken' = taken + 1
            /\ connection' = taken + 1
       ELSE UNCHANGED <<taken, connection>>
    /\ blocks' = Append(blocks, connection')
    /\ UNCHANGED <<released, release_calls, exc>>
    /\ UNCHANGED notCtxVars

\* the body of the innermost open block raises
BodyRaises ==
    /\ exc = "none"
    /\ blocks # <<>>
    /\ exc' = "Exception"
    /\ UNCHANGED <<connection, blocks, taken, released, release_calls>>
    /\ UNCHANGED notCtxVars

\* leaving the innermost open block, normally or by an exception: the
\* finally clause of acquire. pool.release(None) raises InterfaceError, which
\* leaves the clause before the assignment.
release ==
    /\ blocks # <<>>
    /\ blocks' = SubSeq(blocks, 1, Len(blocks) - 1)
    /\ release_calls' = Append(release_calls, connection)
    /\ IF connection = None
       THEN /\ exc' = "InterfaceError"
            /\ UNCHANGED <<connection, released>>
       ELSE /\ released' = [released EXCEPT ![connection] = @ + 1]
            /\ connection' = None
            /\ UNCHANGED exc
    /\ UNCHANGED taken
    /\ UNCHANGED notCtxVars

\* the exception has left the outermost block and the caller handles it
Handled ==
    /\ blocks = <<>>
    /\ exc # "none"
    /\ exc' = "none"
    /\ UNCHANGED <<connection, blocks, taken, released, release_calls>>
    /\ UNCHANGED notCtxVars

NextCtx ==
    \/ acquire
    \/ BodyRaises
    \/ release
    \/ Handled

\* ------------------------------------- shutdown and the background tasks
\* Kamisato.close running while the polling loop and the region timers of the
\* Timers cog are alive. The other tasks run while close is suspended at an
\* await, or has returned or raised. A task evaluates self.bot.db when it
\* issues a query: the loop in the step that ends at the fetchval of line
\* 110, the fetchrow of line 123 or the acquire of line 132, a timer when it
\* fires.

\* the bot after setup_hook
Started ==
    /\ ssh_tunnel \in BOOLEAN
    /\ ssh_tunnel_proc = (IF ssh_tunnel THEN "proc" ELSE "MISSING")
    /\ proc = (IF ssh_tunnel THEN "running" ELSE "none")
    /\ db = "pool"
    /\ pool = "open"
    /\ schema = TRUE
    /\ extensions = Exts
    /\ conn = "open"
    /\ spc = "done"
    /\ cpc = [c \in Closers |-> "idle"]

\* close is not running: it waits for Pool.close or for the tunnel process,
\* or it is over
CloseSuspended ==
    \A c \in Closers : cpc[c] \in {"idle", "db_close", "wait", "done", "raised"}

\* the awaits of the loop that are queries
QueryPcs == {"check", "poll", "delete"}

\* self.bot.db is a pool that accepts queries
Usable == db = "pool" /\ pool = "open"

\* the next step of the task issues a query
WouldQuery(t) ==
    \/ Runs(t, "wait_ready") /\ ready /\ ~active
    \/ Runs(t, "top") /\ ~closed /\ active
    \/ Runs(t, "sleep") /\ now >= task[t].row.target

\* a step of the loop up to its next await; a query is issued on a usable
\* pool
LoopRuns(t) ==
    /\ CloseSuspended
    /\ WaitReady(t) \/ LoopTop(t) \/ Sleep(t) \/ Send(t)
    /\ task'[t].pc \in QueryPcs => Usable

\* the query cannot be issued: AttributeError on MISSING, InterfaceError on
\* a pool that is closing; the loop catches neither and the task ends
QueryRaises(t) ==
    /\ CloseSuspended
    /\ WouldQuery(t)
    /\ ~Usable
    /\ task' = [task EXCEPT ![t].pc = "failed", ![t].row = NoRow]
    /\ UNCHANGED <<now, ready, closed, unloaded, custom_reminder, nextuid,
                   active, latest, recorded, sent, connLost,
                   notLoopVars>>

\* a query in flight returns: a pool that is closing lets it finish
QueryReturns(t) ==
    /\ CloseSuspended
    /\ pool \in {"open", "closing"}
    /\ CheckTable(t) \/ Poll(t) \/ DeleteRow(t)

\* a query in flight when the pool is terminated fails with a connection
\* error
QueryAborted(t) ==
    /\ CloseSuspended
    /\ pool = "terminated"
    /\ task[t].pc \in QueryPcs
    /\ CheckTableFails(t) \/ LoopFails(t)

\* the end of a task
TaskEnds(t) ==
    /\ CloseSuspended
    /\ TaskExit(t) \/ TaskCancelled(t)

QueryInFlight ==
    \/ \E t \in TaskIds : task[t].pc \in QueryPcs /\ ~Done(t)
    \/ cb.pc = "purge"

\* Pool.close returns once the connections in use are released
PoolClosedIdle(c, outcome) ==
    /\ outcome = "ok" => ~QueryInFlight
    /\ PoolClosed(c, outcome)

\* a region timer fires while the cog is loaded: the fetch of its callback.
\* No user is subscribed, so the callback goes on to _purge_daily at once
TimerFires ==
    /\ CloseSuspended
    /\ Usable
    /\ ~unloaded
    /\ \E server \in Servers : daily_timer(server)

\* the fetch cannot be issued: the callback raises
TimerRaises ==
    /\ CloseSuspended
    /\ ~Usable
    /\ cb.pc = "idle" /\ ~unloaded
    /\ nfire < MaxFires
    /\ nfire' = nfire + 1
    /\ ev' = NoEv
    /\ UNCHANGED <<user_config, reminder, channels, cb, pending, ncmd,
                   notRemVars>>

\* the purge in flight returns
PurgeReturns ==
    /\ CloseSuspended
    /\ pool \in {"open", "closing"}
    /\ CallbackPurge

\* the purge in flight when the pool is terminated fails and the callback
\* raises
PurgeAborted ==
    /\ CloseSuspended
    /\ pool = "terminated"
    /\ cb.pc = "purge"
    /\ cb' = Idle
    /\ ev' = NoEv
    /\ UNCHANGED <<user_config, reminder, channels, pending, ncmd, nfire,
                   notRemVars>>

\* Kamisato.close line 177: Bot.close unloads the extensions, which runs
\* Timers.cog_unload, and closes the connection to the platform
CloseUnloads(c) ==
    /\ cpc[c] = "super_close"
    /\ conn' = "closed"
    /\ cpc' = [cpc EXCEPT ![c] = "done"]
    /\ closed' = TRUE
    /\ unloaded' = TRUE
    /\ IF ~unloaded /\ recorded # None
         THEN /\ task' = CancelTask(task, recorded)
              /\ recorded' = None
         ELSE UNCHANGED <<task, recorded>>
    /\ UNCHANGED <<now, ready, custom_reminder, nextuid, active, latest, sent,
                   connLost>>
    /\ UNCHANGED <<ssh_tunnel, ssh_tunnel_proc, proc, db, pool, schema,
                   extensions, spc>>
    /\ UNCHANGED <<remVars, importVars, devVars, pagVars, clockVars, utilVars>>

ShutdownStep ==
    \/ Tick
    \/ BotReady
    \/ TunnelExits
    \* one call of close
    \/ \E c \in {CHOOSE c \in Closers : TRUE} :
          \/ close(c)
          \/ stop_database(c)
          \/ \E outcome \in {"ok", "timeout", "error"} :
                PoolClosedIdle(c, outcome)
          \/ stop_ssh_tunnel(c)
          \/ TunnelWaited(c)
          \/ CloseUnloads(c)
    \/ \E t \in TaskIds :
          \/ LoopRuns(t)
          \/ QueryRaises(t)
          \/ QueryReturns(t)
          \/ QueryAborted(t)
          \/ TaskEnds(t)
    \/ TimerFires
    \/ TimerRaises
    \/ PurgeReturns
    \/ PurgeAborted

\* ---------------------------------------------------------- specifications
\* the parts added to the model after the first three, as constructed
InitUtil == InitTrim /\ InitMerge /\ InitCtx

InitRest ==
    /\ InitBot /\ NoTunnel /\ InitDev /\ InitPag /\ DefaultPag
    /\ InitClock /\ Midnight /\ InitUtil

NextLoop == LoopStep

\* the polling loop; the reminder tables stay as initialised
InitL == InitLoop /\ InitRem /\ InitImport /\ InitRest

SpecLoop == InitL /\ [][NextLoop]_vars

\* the event loop runs every task that can run, the clock advances and the
\* gateway gets ready
FairSpecLoop ==
    /\ SpecLoop
    /\ WF_vars(Tick)
    /\ WF_vars(BotReady)
    /\ \A t \in TaskIds : WF_vars(TaskStep(t))

NextRem == RemStep

\* the reminder commands and the region timers; the polling loop shares no
\* table with them and stays as constructed
InitR ==
    InitLoop /\ custom_reminder = {} /\ InitRem /\ InitImport /\ InitRest

SpecRem == InitR /\ [][NextRem]_vars

NextReset == ResetStep

\* the resets over tables with MaxSubs subscribers
InitS ==
    InitLoop /\ custom_reminder = {} /\ InitSubscribed /\ InitImport
             /\ InitRest

SpecReset == InitS /\ [][NextReset]_vars

InitI ==
    InitLoop /\ custom_reminder = {} /\ InitRem /\ InitImport /\ InitRest

SpecImport == InitI /\ [][NextImport]_vars

\* startup and shutdown, with and without a tunnel
InitB ==
    InitLoop /\ custom_reminder = {} /\ InitRem /\ InitImport /\ InitBot
             /\ InitDev /\ InitPag /\ DefaultPag /\ InitClock /\ Midnight
             /\ InitUtil

SpecBot == InitB /\ [][NextBot]_vars

\* the developer console
InitD ==
    InitLoop /\ custom_reminder = {} /\ InitRem /\ InitImport /\ InitBot
             /\ NoTunnel /\ InitDev /\ InitPag /\ DefaultPag
             /\ InitClock /\ Midnight
             /\ InitUtil

SpecDev == InitD /\ [][NextDev]_vars

\* a Paginator of any size and fixes, then the view over its pages
InitP ==
    InitLoop /\ custom_reminder = {} /\ InitRem /\ InitImport /\ InitBot
             /\ NoTunnel /\ InitDev /\ InitPag /\ InitClock /\ Midnight
             /\ InitUtil

SpecPag == InitP /\ [][NextPag]_vars

\* the date computations, at any instant of the clock's range
InitK ==
    InitLoop /\ custom_reminder = {} /\ InitRem /\ InitImport /\ InitBot
             /\ NoTunnel /\ InitDev /\ InitPag /\ DefaultPag /\ InitClock
             /\ InitUtil

SpecClock == InitK /\ [][NextClock]_vars

\* the calls of trim
InitT ==
    InitLoop /\ custom_reminder = {} /\ InitRem /\ InitImport /\ InitRest

SpecTrim == InitT /\ [][NextTrim]_vars

\* a MergeStream over a process, from its construction
InitM ==
    InitLoop /\ custom_reminder = {} /\ InitRem /\ InitImport /\ InitRest

SpecMerge == InitM /\ [][NextMerge]_vars

\* the acquire blocks of one Context
InitC ==
    InitLoop /\ custom_reminder = {} /\ InitRem /\ InitImport /\ InitRest

SpecCtx == InitC /\ [][NextCtx]_vars

NextShutdown == ShutdownStep

\* close, the polling loop and the timers from a bot that has started
InitH ==
    InitLoop /\ InitRem /\ InitImport /\ Started /\ InitDev /\ InitPag
             /\ DefaultPag /\ InitClock /\ Midnight /\ InitUtil

SpecShutdown == InitH /\ [][NextShutdown]_vars

\* --------------------------------------------- claims on the polling loop

\* C1: whenever the polling loop hits a connection-loss error after the bot
\* is ready, it restarts itself: after that step a fresh polling task exists,
\* it has not been asked to cancel, and it is the one recorded in
\* _custom_reminder_task.
C1_RestartsOnConnectionLoss ==
    [][connLost' > connLost =>
          /\ recorded' # None
          /\ recorded' # recorded
          /\ task'[recorded'].pc = "wait_ready"
          /\ ~task'[recorded'].cancel]_vars

\* C2: every stored reminder whose time lies within the clock's range (so
\* less than 40 days ahead) is eventually taken out of the table by the loop,
\* unless the connection is lost, the bot closes or the cog is unloaded.
Stored(u) == \E r \in custom_reminder : r.uid = u /\ r.target <= MaxTime
C2_EveryReminderTaken ==
    \A u \in 1..MaxReminders :
        Stored(u) ~> (~Stored(u) \/ connLost > 0 \/ closed \/ unloaded)

\* C3: the loop never takes a reminder out of the table while another stored
\* reminder with an earlier time is still pending.
C3_PriorityOrdered ==
    [][\A r \in custom_reminder :
          r \notin custom_reminder' =>
              \A r2 \in custom_reminder : r2.target >= r.target]_vars

\* C4: in every reachable state at most one polling task exists that is
\* neither done nor asked to cancel.
C4_AtMostOnePollingTask ==
    Cardinality({t \in TaskIds : Alive(t)}) <= 1

\* a restart has happened: the previous task ended cancelled and the
\* recorded one is alive
C4_Witness ==
    /\ connLost > 0
    /\ recorded # None /\ Alive(recorded)
    /\ \E t \in TaskIds : t # recorded /\ task[t].pc = "cancelled"

\* ------------------------------------------ claims on the reset reminders

\* C5: for a user with a server configured, /reminder daily and /reminder
\* weekly toggle: invoked without a subscription the command stores the row
\* with the given repeat flag and channel and answers; invoked with one it
\* gets the uniqueness violation, and its handler then deletes the user's
\* subscription and answers that the reminder was cancelled. No user ever has
\* two rows in one table.
C5_Toggle ==
    [][/\ \A k \in Kinds, u \in Users :
             Cardinality({r \in reminder'[k] : r.userid = u}) <= 1
       /\ (ev'.type = "interaction" /\ ev'.cmd \in Kinds /\ HasConfig(ev'.user)) =>
             LET k == ev'.cmd
                 u == ev'.user
                 row == [userid |-> u, repeat |-> ev'.repeat,
                         channelid |-> ev'.channel]
             IN  IF ncmd' > ncmd
                   THEN IF ~HasRow(k, u)
                          THEN /\ reminder' = [reminder EXCEPT ![k] = @ \cup {row}]
                               /\ ev'.reply = "ok"
                          ELSE /\ reminder' = reminder
                               /\ <<u, k>> \in pending'
                               /\ ev'.reply = "deferred"
                   ELSE /\ reminder' =
                              [reminder EXCEPT ![k] = {r \in @ : r.userid # u}]
                        /\ ev'.reply = "cancelled"]_vars

\* a subscription that existed was toggled off
C5_Witness ==
    /\ ev.type = "interaction" /\ ev.reply = "cancelled"
    /\ ~HasRow(ev.cmd, ev.user)
    /\ HasConfig(ev.user)

\* C6: /reminder daily or weekly by a user without a server stores nothing:
\* the tables are unchanged, no cancellation is pending and the user gets the
\* 'Failed to set up a reminder' follow-up.
C6_NoServerStoresNothing ==
    [][(/\ ev'.type = "interaction" /\ ev'.cmd \in Kinds
        /\ ncmd' > ncmd
        /\ ~HasConfig(ev'.user)) =>
          /\ reminder' = reminder
          /\ user_config' = user_config
          /\ pending' = pending
          /\ ev'.reply = "failed"]_vars

C6_Witness ==
    /\ ev.type = "interaction" /\ ev.cmd \in Kinds /\ ev.reply = "failed"
    /\ ~HasConfig(ev.user)

\* C7: a weekly reminder registered with repeat=false is delivered once: when
\* the weekly reset that mentioned its user ends, the subscription is gone.
C7_WeeklyOnce ==
    [][(cb.pc = "purge" /\ cb.kind = "weekly" /\ cb'.pc = "idle") =>
          \A u \in cb.mentioned :
              (\E r \in reminder.weekly : r.userid = u /\ ~r.repeat) =>
                  ~(\E r \in reminder'.weekly : r.userid = u)]_vars

\* C8: when a region timer fires, on any weekday, every user of that server
\* with a daily subscription is among those the reset mentions; and the purge
\* of a reset removes no daily subscription whose user it did not mention.
C8_DailyEveryWeekday ==
    [][/\ (cb.pc = "idle" /\ cb'.pc # "idle") =>
             \A r \in reminder.daily :
                 (\E c \in user_config :
                     c.userid = r.userid /\ c.server = cb'.server) =>
                     \E i \in 1..Len(cb'.rows) : cb'.rows[i][1] = r.userid
       /\ (cb.pc = "purge" /\ cb'.pc = "idle") =>
             \A r \in reminder.daily :
                 r \notin reminder'.daily => r.userid \in cb.mentioned]_vars

\* C9: a step of a reset callback for server S adds no row and changes no
\* user_config; a row it removes is a non-repeating subscription of a user
\* whose server is S, or a row of the channel the callback did not find.
C9_ResetRemovesOnly ==
    [][cb' # cb =>
          /\ user_config' = user_config
          /\ \A k \in Kinds : reminder'[k] \subseteq reminder[k]
          /\ \A k \in Kinds : \A r \in reminder[k] :
                r \notin reminder'[k] =>
                   \/ /\ cb.pc = "purge"
                      /\ ~r.repeat
                      /\ \E c \in user_config :
                            c.userid = r.userid /\ c.server = cb.server
                   \/ /\ cb.pc = "groups"
                      /\ k = cb.kind
                      /\ r.channelid = cb.rows[1][2]
                      /\ r.channelid \notin channels]_vars

\* a purge removed a subscription and left another one in the table
C9_Witness ==
    /\ ev.type = "purge"
    /\ ev.removed # {}
    /\ reminder.daily # {}

\* C17: /server update is an upsert keyed by user. A step of the command
\* leaves exactly one user_config row for its user, with the region of that
\* update, and every other row and table as it was; when the row was already
\* there the step changes nothing; no other step changes user_config, so the
\* row holds the region of the user's latest update.
C17_UpsertByUser ==
    [][/\ (ev'.type = "interaction" /\ ev'.cmd = "server" /\ ncmd' > ncmd) =>
             LET row == [userid |-> ev'.user, server |-> ev'.reply]
             IN  /\ {c \in user_config' : c.userid = ev'.user} = {row}
                 /\ {c \in user_config' : c.userid # ev'.user} =
                       {c \in user_config : c.userid # ev'.user}
                 /\ reminder' = reminder
                 /\ row \in user_config => user_config' = user_config
       /\ user_config' # user_config =>
             (ev'.type = "interaction" /\ ev'.cmd = "server")
       /\ \A u \in Users :
             Cardinality({c \in user_config' : c.userid = u}) <= 1]_vars

\* a user who had a server, and a subscription made with it, has updated
\* the server again while another user has a row too
C17_Witness ==
    /\ ev.type = "interaction" /\ ev.cmd = "server"
    /\ HasRow("daily", ev.user)
    /\ \E c \in user_config : c.userid # ev.user

\* ------------------------------------------------- claims on /data import

\* C10: when /data import of an attachment that is not valid JSON has ended,
\* the user has the decode-error follow-up, save_data was not called and
\* nothing was written to the database.
C10_InvalidJsonReported ==
    (ipc = "done" /\ json_loads(attachment) # "ok") =>
        /\ ireply = "decode error"
        /\ ~isaved
        /\ dbwrites = 0

\* C11: when /data import of a well-formed JSON attachment has ended, the
\* user has the 'Data updated successfully' follow-up.
C11_WellFormedAnswered ==
    (ipc = "done" /\ json_loads(attachment) = "ok") => ireply = "updated"

\* ------------------------------------------ claims on startup and shutdown

\* C12: startup and shutdown are ordered. The tunnel, when one is configured,
\* is started before the pool is created; an extension is loaded only when
\* the pool exists and the schema has been executed; the tunnel is terminated
\* only when the pool has been closed; and the connection to the platform is
\* closed only when the pool has been closed and the tunnel process is gone.
C12_StartupShutdownOrdered ==
    [][/\ (proc = "none" /\ proc' # "none") => pool = "none"
       /\ (pool = "none" /\ pool' # "none") => (ssh_tunnel => proc # "none")
       /\ (extensions' # extensions) =>
             (db = "pool" /\ pool = "open" /\ schema)
       /\ (proc # "signalled" /\ proc' = "signalled") =>
             pool \in {"none", "closed", "terminated"}
       /\ (conn = "open" /\ conn' = "closed") =>
             (pool \in {"none", "closed", "terminated"}
                 /\ proc \in {"none", "exited"})]_vars

\* a bot with a tunnel was started with all its extensions and shut down
C12_Witness ==
    /\ ssh_tunnel
    /\ extensions = Exts
    /\ conn = "closed"
    /\ pool = "closed"
    /\ ssh_tunnel_proc = "MISSING" /\ proc = "exited"

\* ------------------------------------------ claims on the developer console

\* C13: no /dev command handler runs, or has run, for an interaction whose
\* user is not MAYA_ID.
C13_OwnerOnly ==
    /\ dpc = "run" => dreq.user = MAYA_ID
    /\ \A r \in dran : r[1] = MAYA_ID

\* the owner has run a command and another user's interaction was rejected
C13_Witness ==
    /\ dran # {}
    /\ dpc = "rejected"
    /\ dreq.user # MAYA_ID

\* ------------------------------------------------- claims on the paginator

\* C14: after any sequence of append, appendln, appendlines and next_page
\* calls, every string in pages has length at most max_size.
C14_PagesWithinMaxSize ==
    \A i \in 1..Len(pages) : Len(pages[i]) <= max_size

\* the body of a page: the page without the prefix and the suffix
Body(page) == SubSeq(page, Len(prefix) + 1, Len(page) - Len(suffix))

RECURSIVE Concat(_)
Concat(ss) == IF ss = <<>> THEN <<>> ELSE Head(ss) \o Concat(Tail(ss))

\* C15: after any sequence of appends (append, appendln, appendlines, no
\* direct next_page), the bodies of the pages, concatenated in page order,
\* are the concatenation of the successfully appended values in call order,
\* every page is its body between the prefix and the suffix, and no body is
\* empty.
C15_NothingLostOrReordered ==
    nnext = 0 =>
        /\ Concat([i \in 1..Len(pages) |-> Body(pages[i])]) = appended
        /\ \A i \in 1..Len(pages) :
              /\ pages[i] = prefix \o Body(pages[i]) \o suffix
              /\ Body(pages[i]) # <<>>

\* appends have filled more than one page, with a prefix and a suffix
C15_Witness ==
    /\ nnext = 0
    /\ Len(pages) >= 2
    /\ prefix # <<>> /\ suffix # <<>>
    /\ \E i \in 1..Len(appended) : appended[i] # appended[1]

\* C16: in a ReactivePaginator over at least one page, until the stop button
\* is pressed, the page index is within 0..len(pages)-1, the first and left
\* buttons are disabled exactly when the index is 0, the right and last
\* buttons exactly when it is the last page, and no wrap-around of _rotate
\* has been taken.
C16_IndexInRange ==
    (view /\ ~disabled.stop) =>
        /\ page_index \in 0..(Len(pages) - 1)
        /\ disabled.start = (page_index = 0)
        /\ disabled.left = (page_index = 0)
        /\ disabled.right = (page_index = Len(pages) - 1)
        /\ disabled.end = (page_index = Len(pages) - 1)
        /\ ~wrapped

\* a press has moved the view to the last of several pages
C16_Witness ==
    /\ view /\ ~disabled.stop
    /\ Len(pages) >= 2
    /\ page_index = Len(pages) - 1
    /\ ~disabled.start /\ disabled.end

\* ------------------------------------------- claims on dates and resets

\* the local time of the clock in a region
LocalMinutes(server) == clock + ZoneInfo[timezones[server]]

\* C18: /server today never fails; its game day is the local calendar day
\* when the local hour is 4 or later and the day before otherwise, and its
\* reset is 04:00 local time of the day after the game day, as a UTC instant.
C18_TodayGameDay ==
    kres.op = "today" =>
        LET local == LocalMinutes(kres.server)
            cal == local \div 1440
            gday == IF (local % 1440) \div 60 >= 4 THEN cal ELSE cal - 1
        IN  /\ ~kres.failed
            /\ kres.day = Dates[gday]
            /\ kres.reset =
                  (gday + 1) * 1440 + 240 - ZoneInfo[timezones[kres.server]]

\* C19: the reset time /reminder daily reports is 04:00 local time, not
\* earlier than the current time and at most 24 hours after it.
C19_NextDailyReset ==
    kres.op = "daily" =>
        /\ (kres.reset + ZoneInfo[timezones[kres.server]]) % 1440 = 240
        /\ kres.reset >= clock
        /\ kres.reset <= clock + 1440

\* the offsets of the regions from UTC, in hours
RegionOffset == [america |-> -5, asia |-> 8, europe |-> 1]

\* C20: a firing of a region's timer runs one callback, for that region: the
\* weekly callback when it is Monday at UTC-5 (America), UTC+8 (Asia) or
\* UTC+1 (Europe), and the daily callback on every other weekday.
C20_TimerCallback ==
    kres.op = "timer" =>
        LET local == clock + RegionOffset[kres.server] * 60
        IN  /\ kres.server \in Servers
            /\ kres.kind =
                  IF weekday(Dates[local \div 1440]) = 0 THEN "weekly"
                  ELSE "daily"

\* the Asia timer has fired on a Monday, while it is still Sunday in UTC
C20_Witness ==
    /\ kres.op = "timer"
    /\ kres.server = "asia"
    /\ kres.kind = "weekly"
    /\ weekday(Dates[clock \div 1440]) = 6

\* --------------------------------- claims on the console's helpers, Context

\* the limit of the last call of trim: the given max, else 1900 in a code
\* block and 1990 outside
TrimLimit ==
    IF tres.max # None THEN tres.max
    ELSE IF tres.code_block THEN CodeBlockMax ELSE DefaultMax

\* the result of the last call without its fence
TrimBody ==
    IF tres.code_block THEN SubSeq(tres.out, 5, Len(tres.out) - 4)
    ELSE tres.out

\* C21: trim returns a text shorter than the limit unchanged apart from the
\* code-block fence, appends the end marker only when characters were cut
\* off, and never returns more than the limit plus the end marker plus the
\* fence.
C21_TrimCutsAtLimit ==
    tres.op = "trim" =>
        /\ Len(tres.text) < TrimLimit => TrimBody = tres.text
        /\ (TrimBody # <<>> /\ TrimBody[Len(TrimBody)] = Ellipsis)
              => Len(tres.text) > TrimLimit
        /\ Len(tres.out) <= TrimLimit + Len(DefaultEnd)
                              + (IF tres.code_block THEN 8 ELSE 0)

\* the lines of one stream that the iteration has yielded, in order
FromStream(s) == SelectSeq(yielded, LAMBDA line : line[1] = s)

\* C22: the lines a MergeStream yields from each stream are lines the
\* process wrote to it, in the order written, and when the iteration ends
\* every line written to stdout and to stderr has been yielded.
C22_EveryLineYielded ==
    \A s \in Streams :
        /\ Len(FromStream(s)) <= Len(written[s])
        /\ FromStream(s) = SubSeq(written[s], 1, Len(FromStream(s)))
        /\ stopped => FromStream(s) = written[s]

C24_DeliveredAtMostOnce ==
    [][\A t \in TaskIds :
          (Runs(t, "send") /\ task'[t].pc # "send") =>
              LET u == task[t].row.uid
              IN  /\ u \notin sent
                  /\ \A r \in custom_reminder \cup custom_reminder' :
                        r.uid # u
                  /\ sent' \in {sent, sent \cup {u}}
                  /\ connLost' = connLost => task'[t].pc = "top"]_vars

\* the first reminder was dropped on an HTTP error (deleted, not delivered,
\* no connection lost, nothing cancelled) and the loop has delivered the
\* second
C24_Witness ==
    /\ connLost = 0 /\ ~unloaded
    /\ nextuid = 3
    /\ custom_reminder = {}
    /\ sent = {2}
    /\ \A t \in TaskIds : task[t].row = NoRow

\* -------------------------------- further claims on the reset reminders

\* the channels of the rows a run fetched
FetchedChannels == {cb.fetched[i][2] : i \in DOMAIN cb.fetched}

C26_OneMessagePerChannel ==
    [][/\ (cb.pc = "groups" /\ ev'.type = "message") =>
             /\ ev'.users \cap cb.mentioned = {}
             /\ ev'.users =
                   {cb.fetched[i][1] :
                       i \in {j \in DOMAIN cb.fetched :
                                 cb.fetched[j][2] = ev'.channel}}
             /\ \A i \in DOMAIN cb.posted : cb.posted[i] # ev'.channel
       /\ (cb.pc = "purge" /\ cb'.pc = "idle") =>
             \A i \in DOMAIN cb.fetched :
                 cb.fetched[i][2] \notin cb.lost =>
                     cb.fetched[i][1] \in cb.mentioned]_vars

\* ---------------------------- further claims on startup and shutdown

\* C27: when stop_database returns, to any of the calls of close, the pool
\* reference is unset, the pool is closed or terminated if there was one,
\* and the tunnel process, if there was one, has exited and is no longer
\* recorded; whether the pool closed in time or the close timed out.
C27_StopDatabaseLeavesNothing ==
    [][\A c \in Closers :
          (cpc[c] \in {"stop_tunnel", "wait"} /\ cpc'[c] = "super_close") =>
              /\ db' = "MISSING"
              /\ pool' \in {"none", "closed", "terminated"}
              /\ proc' \in {"none", "exited"}
              /\ ssh_tunnel_proc' = "MISSING"]_vars

\* stop_database has returned after the close of the pool timed out and the
\* tunnel process was terminated
C27_Witness ==
    /\ \E c \in Closers : cpc[c] = "super_close"
    /\ pool = "terminated"
    /\ ssh_tunnel /\ proc = "exited"
    /\ db = "MISSING" /\ ssh_tunnel_proc = "MISSING"

\* C28: a call of start_ssh_tunnel that returns without raising has spawned
\* a new process unless a tunnel process is alive, in which case it spawns
\* nothing; so there is never a spawn while a process is alive, and a call
\* after a start that failed with RuntimeError spawns again.
C28_TunnelStartedUnlessAlive ==
    [][(spc = "spawn" /\ spc' \in {"sleep", "create_pool"}) =>
          IF proc \in {"running", "signalled"}
            THEN proc' = proc /\ spc' = "create_pool"
            ELSE proc' = "running" /\ ssh_tunnel_proc' = "proc"
                    /\ spc' = "sleep"]_vars

====
